---- MODULE Spec2Model ----
(***************************************************************************)
(* Formula engine of the spreadsheet grid (src/src/Grid.tsx): parsing raw  *)
(* cell text, dependency extraction, the dependency-cycle check, the       *)
(* evaluator, and the edit gate of CellRenderer.onBlur.                    *)
(*                                                                         *)
(* Text is a sequence of one-character strings, <<"=", "A", "1">> for      *)
(* "=A1", so that trimming, searching, slicing and splitting are computed  *)
(* character by character as the JavaScript does.                          *)
(***************************************************************************)
EXTENDS Integers, Sequences, FiniteSets, TLC

\* Number of grid rows; stands for the 1000 of makeMatrix(alphabet.length, 1000).
Rows == 2

\* Cap on the number of edits (blur events) explored in one behaviour.
MaxEdits == 3

-----------------------------------------------------------------------------
(* Characters and JavaScript string primitives *)

alphabet ==
    << "A", "B", "C", "D", "E", "F", "G", "H", "I", "J", "K", "L", "M",
       "N", "O", "P", "Q", "R", "S", "T", "U", "V", "W", "X", "Y", "Z" >>

lowercase ==
    << "a", "b", "c", "d", "e", "f", "g", "h", "i", "j", "k", "l", "m",
       "n", "o", "p", "q", "r", "s", "t", "u", "v", "w", "x", "y", "z" >>

digits == << "0", "1", "2", "3", "4", "5", "6", "7", "8", "9" >>

IndexIn(seq, c) == CHOOSE i \in 1..Len(seq) : seq[i] = c

IsUpper(c) == \E i \in 1..Len(alphabet) : alphabet[i] = c
IsLower(c) == \E i \in 1..Len(lowercase) : lowercase[i] = c
IsDigit(c) == \E i \in 1..Len(digits) : digits[i] = c

\* String.prototype.toUpperCase / toLowerCase on one character.
toUpperCase(c) == IF IsLower(c) THEN alphabet[IndexIn(lowercase, c)] ELSE c
toLowerCase(c) == IF IsUpper(c) THEN lowercase[IndexIn(alphabet, c)] ELSE c

lowerText(s) == [i \in 1..Len(s) |-> toLowerCase(s[i])]

\* alphabetToIdx[char]: the 0-based column of an upper-case letter.
alphabetToIdx(c) == IndexIn(alphabet, c) - 1

RECURSIVE trimStart(_)
trimStart(s) ==
    IF s # <<>> /\ Head(s) = " " THEN trimStart(Tail(s)) ELSE s

RECURSIVE trimEnd(_)
trimEnd(s) ==
    IF s # <<>> /\ s[Len(s)] = " " THEN trimEnd(SubSeq(s, 1, Len(s) - 1)) ELSE s

\* String.prototype.trim.  The blank is the only whitespace character of Texts.
trim(s) == trimEnd(trimStart(s))

\* String.prototype.indexOf: 0-based position of the first c, or -1.
indexOf(s, c) ==
    IF \E i \in 1..Len(s) : s[i] = c
    THEN (CHOOSE i \in 1..Len(s) : s[i] = c /\ \A j \in 1..(i - 1) : s[j] # c) - 1
    ELSE -1

\* String.prototype.slice(from, to) with 0-based, end-exclusive positions.
slice(s, from, to) == SubSeq(s, from + 1, to)

\* String.prototype.split(","): always at least one piece.
RECURSIVE split(_)
split(s) ==
    LET p == indexOf(s, ",")
    IN  IF p = -1
        THEN << s >>
        ELSE << slice(s, 0, p) >> \o split(slice(s, p + 1, Len(s)))

IsDigits(s) == s # <<>> /\ \A i \in 1..Len(s) : IsDigit(s[i])

RECURSIVE decimal(_)
decimal(s) ==
    IF s = <<>> THEN 0
    ELSE 10 * decimal(SubSeq(s, 1, Len(s) - 1)) + (IndexIn(digits, s[Len(s)]) - 1)

\* Number(x) of JavaScript on the texts of this model: surrounding blanks are
\* ignored, the empty text is 0, a run of digits is its decimal value and every
\* other text is NaN.  (Signs, fractions, exponents, radix prefixes and
\* "Infinity" are outside the alphabet of Texts.)
Number(s) ==
    LET t == trim(s)
    IN  IF t = <<>> THEN [nan |-> FALSE, num |-> 0]
        ELSE IF IsDigits(t) THEN [nan |-> FALSE, num |-> decimal(t)]
        ELSE [nan |-> TRUE, num |-> 0]

-----------------------------------------------------------------------------
(* Formula parser and dependency extractor *)

\* eqAddress
eqAddress(a, b) == a.x = b.x /\ a.y = b.y

\* parseRef: /^([A-Z])([0-9]+)$/i, one letter then one or more digits.
parseRef(argTrimmed) ==
    IF /\ Len(argTrimmed) >= 2
       /\ IsUpper(argTrimmed[1]) \/ IsLower(argTrimmed[1])
       /\ IsDigits(Tail(argTrimmed))
    THEN [isNull |-> FALSE,
          address |-> [x |-> alphabetToIdx(toUpperCase(argTrimmed[1])),
                       y |-> Number(Tail(argTrimmed)).num]]
    ELSE [isNull |-> TRUE]

\* parseNumericArgs: the loop over argsStrings, args accumulated so far.
RECURSIVE parseNumericArgsFrom(_, _)
parseNumericArgsFrom(argsStrings, args) ==
    IF argsStrings = <<>>
    THEN IF Len(args) = 0 THEN [isNull |-> TRUE] ELSE [isNull |-> FALSE, args |-> args]
    ELSE LET argTrimmed == trim(Head(argsStrings))
             address    == parseRef(argTrimmed)
             num        == Number(argTrimmed)
         IN  IF ~address.isNull
             THEN parseNumericArgsFrom(Tail(argsStrings),
                      Append(args, [type |-> "ref", address |-> address.address]))
             ELSE IF ~num.nan
             THEN parseNumericArgsFrom(Tail(argsStrings),
                      Append(args, [type |-> "const", num |-> num.num]))
             ELSE [isNull |-> TRUE]

parseNumericArgs(argsStrings) == parseNumericArgsFrom(argsStrings, <<>>)

\* parseCellContents
parseCellContents(value) ==
    LET val == trim(value)
    IN  IF val = <<>> \/ val[1] # "="
        THEN [type |-> "const"]
        ELSE
        LET openParenPos == indexOf(val, "(")
        IN  IF openParenPos = -1
            THEN LET address == parseRef(trim(slice(val, 1, Len(val))))
                 IN  IF ~address.isNull
                     THEN [type |-> "ref", address |-> address.address]
                     ELSE [type |-> "invalid"]
            ELSE
            LET func           == lowerText(slice(val, 1, openParenPos))
                argsWithParens == slice(val, openParenPos, Len(val))
            IN  IF argsWithParens[Len(argsWithParens)] # ")"
                THEN [type |-> "invalid"]
                ELSE
                LET argsStrings == split(slice(argsWithParens, 1, Len(argsWithParens) - 1))
                IN  IF func = << "s", "u", "m" >>
                       \/ func = << "p", "r", "o", "d", "u", "c", "t" >>
                    THEN LET args == parseNumericArgs(argsStrings)
                         IN  IF args.isNull
                             THEN [type |-> "invalid"]
                             ELSE [type |-> IF func = << "s", "u", "m" >>
                                            THEN "sum" ELSE "product",
                                   args |-> args.args]
                    ELSE [type |-> "invalid"]

\* isRefArg
isRefArg(arg) == arg.type = "ref"

\* Variant of dependencies that forgets the ref arguments of sum and product.
dependenciesRefOnly(parsed) ==
    IF parsed.type = "ref" THEN << parsed.address >> ELSE <<>>

\* dependencies: the addresses in ref positions, in argument order.
dependencies(parsed) ==
    CASE parsed.type = "const"   -> <<>>
      [] parsed.type = "invalid" -> <<>>
      [] parsed.type = "ref"     -> << parsed.address >>
      [] parsed.type \in {"sum", "product"} ->
            LET refs == SelectSeq(parsed.args, isRefArg)
            IN  [i \in 1..Len(refs) |-> refs[i].address]

-----------------------------------------------------------------------------
(* Inputs: the edited cells and the texts typed into them *)

\* Decimal text of a natural number.
RECURSIVE ToText(_)
ToText(n) ==
    IF n < 10 THEN << digits[n + 1] >>
    ELSE ToText(n \div 10) \o << digits[(n % 10) + 1] >>

A0 == [x |-> 0, y |-> 0]
B0 == [x |-> 1, y |-> 0]
A1 == [x |-> 0, y |-> 1]
B1 == [x |-> 1, y |-> 1]

\* The cells whose renderer is edited.
Edited == {A0, B0, A1, B1}

\* The first row below the matrix, as text.
Beyond == ToText(Rows)

TwoText        == << "2" >>
WordText       == << " ", "x" >>
SpacedRefA0    == << " ", "=", "A", "0" >>
RefB0          == << "=", "B", "0" >>
RefA1Lower     == << "=", "a", "1" >>
RefB1          == << "=", "B", "1" >>
SumB0A1        == << "=", "S", "U", "M", "(", "B", "0", ",", "A", "1", ")" >>
ProductA1Two   == << "=", "P", "R", "O", "D", "U", "C", "T", "(", "A", "1", ",", "2", ")" >>
SumNoArgs      == << "=", "S", "U", "M", "(", ")" >>
ProductNoArgs  == << "=", "p", "r", "o", "d", "u", "c", "t", "(", ")" >>
SumBeyondA0    == << "=", "S", "U", "M", "(", "A" >> \o Beyond \o << ",", "A", "0", ")" >>
AvgOne         == << "=", "A", "V", "G", "(", "1", ")" >>

\* The texts typed into the input before it loses focus.
Texts ==
    { TwoText, WordText, SpacedRefA0, RefB0, RefA1Lower, RefB1, SumB0A1,
      ProductA1Two, SumNoArgs, ProductNoArgs, SumBeyondA0, AvgOne }

\* Cell.parsed: parseCellContents(this.raw), tabulated over the raw texts a
\* cell can hold.
parsedOf == [raw \in Texts \cup {<<>>} |-> parseCellContents(raw)]

cellParsed(raw) == parsedOf[raw]

\* Cell.dependencies: dependencies(this.parsed).
cellDependencies(raw) == dependencies(cellParsed(raw))

-----------------------------------------------------------------------------
(* Grid and evaluator *)

\* A cell is its raw text; state[y][x] is the slot of column x in row y.
Cell(raw) == [kind |-> "cell", raw |-> raw]

\* makeMatrix(cols, rows): every slot holds a cell with empty raw text.
makeMatrix(cols, rows) ==
    [i \in 0..(rows - 1) |-> [j \in 0..(cols - 1) |-> <<>>]]

\* Variant of lookupCell with optional chaining, state[address.y]?.[address.x]:
\* a missing row yields undefined instead of throwing.
lookupCellOptional(state, address) ==
    IF address.y \notin DOMAIN state \/ address.x \notin DOMAIN state[address.y]
    THEN [kind |-> "undefined"]
    ELSE Cell(state[address.y][address.x])

\* lookupCell: state[address.y][address.x].  A row index that is no row of the
\* matrix makes state[address.y] undefined and the second subscript a
\* TypeError; a column index outside the row yields undefined.
lookupCell(state, address) ==
    IF address.y \notin DOMAIN state
    THEN [kind |-> "TypeError"]
    ELSE IF address.x \notin DOMAIN state[address.y]
    THEN [kind |-> "undefined"]
    ELSE Cell(state[address.y][address.x])

\* insertCell and Cell.setRaw both leave the slot holding raw text `raw`.
insertCell(state, address, raw) ==
    [state EXCEPT ![address.y] = [j \in DOMAIN @ \cup {address.x} |->
                                    IF j = address.x THEN raw ELSE @[j]]]

setRaw(state, address, value) ==
    [state EXCEPT ![address.y][address.x] = value]

\* The monoids of the two numeric folds.
sum     == [empty |-> 0, concat |-> "+"]
product == [empty |-> 1, concat |-> "*"]

concat(m, a, b) == IF m.concat = "+" THEN a + b ELSE a * b

Str(s) == [kind |-> "string", text |-> s]
Num(n) == [kind |-> "number", num |-> n]

IsError(v) == v.kind \in {"TypeError", "RangeError"}

\* asNumber(x, def)
asNumber(x, def) ==
    LET num == Number(x) IN IF num.nan THEN def ELSE num.num

\* Cells whose term can read other cells: ref, sum and product.
FormulaCells(state) ==
    {a \in [x : 0..(Len(alphabet) - 1), y : DOMAIN state] :
        cellParsed(state[a.y][a.x]).type \in {"ref", "sum", "product"}}

\* Call depth allowed to a recursive traversal.  A traversal that ends nests at
\* most one frame per cell that can read other cells plus one for the last
\* cell; a deeper nesting revisits a cell, never ends, and surfaces in
\* JavaScript as RangeError (call stack exhausted).
StackDepth(state) == Cardinality(FormulaCells(state)) + 1

\* Variant of constValue that returns the trimmed text parseCellContents looked at.
constValueTrimmed(raw) == Str(trim(raw))

\* Cell.value, case "const": this.raw.
constValue(raw) == Str(raw)

RECURSIVE value(_, _, _)
RECURSIVE evalNumericFunction(_, _, _, _, _)

\* readNumber(cell, def), with cell the result of lookupCell.
readNumber(state, cell, def, depth) ==
    IF cell.kind # "cell"
    THEN Num(def)
    ELSE LET v == value(state, cell.raw, depth)
         IN  IF IsError(v) THEN v
             ELSE IF v.kind = "number" THEN v
             ELSE Num(asNumber(v.text, def))

\* evalNumericFunction: the loop from index i with accumulator res.
evalNumericFunction(state, args, m, res, depth) ==
    IF args = <<>>
    THEN Num(res)
    ELSE LET arg == Head(args)
         IN  IF arg.type = "const"
             THEN evalNumericFunction(state, Tail(args), m, concat(m, res, arg.num), depth)
             ELSE LET cell == lookupCell(state, arg.address)
                      n    == IF IsError(cell) THEN cell
                              ELSE readNumber(state, cell, m.empty, depth)
                  IN  IF IsError(n) THEN n
                      ELSE evalNumericFunction(state, Tail(args), m,
                                               concat(m, res, n.num), depth)

\* Cell.value of the cell with raw text `raw`; depth is the call depth left.
value(state, raw, depth) ==
    IF depth = 0 THEN [kind |-> "RangeError"]
    ELSE
    LET this == cellParsed(raw)
    IN  CASE this.type = "const"   -> constValue(raw)
          [] this.type = "invalid" -> Str(<< "I", "N", "V", "A", "L", "I", "D" >>)
          [] this.type = "ref"     ->
                LET cell == lookupCell(state, this.address)
                IN  IF IsError(cell) THEN cell
                    ELSE IF cell.kind # "cell" THEN Str(<<>>)
                    ELSE LET v == value(state, cell.raw, depth - 1)
                         IN  IF IsError(v) THEN v
                             ELSE IF v = Str(<<>>) \/ v = Num(0) THEN Str(<<>>)
                             ELSE v
          [] this.type = "sum"     ->
                evalNumericFunction(state, this.args, sum, sum.empty, depth - 1)
          [] this.type = "product" ->
                evalNumericFunction(state, this.args, product, product.empty, depth - 1)

\* readValue(address): the value the renderer shows for the cell of a slot.
readValue(state, address) ==
    value(state, state[address.y][address.x], StackDepth(state))

-----------------------------------------------------------------------------
(* Cycle detector *)

RECURSIVE hasLoop(_, _, _, _)
RECURSIVE some(_, _, _, _)

\* Array.prototype.some(hasLoop) over deps: stops at the first true; an
\* exception thrown by the callback ends it.
some(state, address, deps, depth) ==
    IF deps = <<>> THEN "false"
    ELSE LET r == hasLoop(state, address, Head(deps), depth)
         IN  IF r = "false" THEN some(state, address, Tail(deps), depth) ELSE r

\* Variant of hasLoop that compares the direct dependencies only and does not
\* recurse into the dependencies of the cell it finds.
hasLoopShallow(state, address, depAddress, depth) ==
    IF eqAddress(address, depAddress) THEN "true"
    ELSE LET depCel == lookupCell(state, depAddress)
         IN  IF IsError(depCel) THEN depCel.kind ELSE "false"

\* hasLoop(depAddress), closed over state and address.
hasLoop(state, address, depAddress, depth) ==
    IF depth = 0 THEN "RangeError"
    ELSE IF eqAddress(address, depAddress) THEN "true"
    ELSE LET depCel == lookupCell(state, depAddress)
         IN  IF IsError(depCel) THEN depCel.kind
             ELSE IF depCel.kind # "cell" THEN "false"
             ELSE some(state, address, cellDependencies(depCel.raw), depth - 1)

\* hasDependencyCycle: "true", "false", or the exception that escapes it.
hasDependencyCycle(state, address, value_) ==
    some(state, address, dependencies(parseCellContents(value_)),
         StackDepth(state) + 1)

\* newValue
newValue(state, address, value_) ==
    LET cell == lookupCell(state, address)
    IN  IF cell.kind = "undefined"
        THEN insertCell(state, address, value_)
        ELSE setRaw(state, address, value_)

-----------------------------------------------------------------------------
(* The edit gate: CellRenderer.onBlur on the matrix of Grid *)

VARIABLES
    state,      \* the matrix: state[y][x] is the raw text of the cell
    outcome,    \* how the last blur ended: "none" before the first one
    edits       \* number of blur events so far

vars == << state, outcome, edits >>

\* Grid: the matrix built once by makeMatrix(alphabet.length, rows).
Init ==
    /\ state = makeMatrix(Len(alphabet), Rows)
    /\ outcome = "none"
    /\ edits = 0

\* Variant of OnBlur whose cycle branch lacks the return: the alert is shown and
\* newValue runs all the same.
OnBlurNoReturn(address, edit) ==
    LET cycle == hasDependencyCycle(state, address, edit)
    IN  /\ edits < MaxEdits
        /\ edits' = edits + 1
        /\ IF cycle = "true"
           THEN outcome' = "rejected" /\ state' = newValue(state, address, edit)
           ELSE IF cycle = "false"
           THEN outcome' = "committed" /\ state' = newValue(state, address, edit)
           ELSE outcome' = "threw" /\ state' = state

\* onBlur of the renderer at `address` whose input holds `edit`: the alert and
\* early return on a cycle, else newValue.  An exception escaping
\* hasDependencyCycle leaves the handler before newValue runs.
OnBlur(address, edit) ==
    LET cycle == hasDependencyCycle(state, address, edit)
    IN  /\ edits < MaxEdits
        /\ edits' = edits + 1
        /\ IF cycle = "true"
           THEN outcome' = "rejected" /\ state' = state
           ELSE IF cycle = "false"
           THEN outcome' = "committed" /\ state' = newValue(state, address, edit)
           ELSE outcome' = "threw" /\ state' = state

Next == \E address \in Edited, edit \in Texts : OnBlur(address, edit)

Spec == Init /\ [][Next]_vars

-----------------------------------------------------------------------------
(* The committed dependency graph *)

\* Every slot of the matrix.
Addresses == [x : 0..(Len(alphabet) - 1), y : DOMAIN state]

RawAt(a) == state[a.y][a.x]

ParsedAt(a) == cellParsed(RawAt(a))

InGrid(d) == d.y \in DOMAIN state /\ d.x \in DOMAIN state[d.y]

SeqSet(seq) == {seq[i] : i \in 1..Len(seq)}

\* Direct dependencies of the committed formula of slot a.
DepSet(a) == SeqSet(dependencies(ParsedAt(a)))

\* Addresses reachable from S by zero or more committed dependency edges.
RECURSIVE ReachFrom(_)
ReachFrom(S) ==
    LET more == S \cup UNION {DepSet(b) : b \in {c \in S : InGrid(c)}}
    IN  IF more = S THEN S ELSE ReachFrom(more)

\* The value read from slot a with call depth `depth` left.
ValueAt(a, depth) == value(state, RawAt(a), depth)

-----------------------------------------------------------------------------
(* Properties *)

\* C1: after any sequence of edits through the gate, no cell is reachable from
\* itself by one or more direct-dependency edges of the committed formulas.
CommittedGraphAcyclic ==
    \A a \in Addresses : a \notin ReachFrom(DepSet(a))

\* C1 witness: a cycle-closing edit was just rejected while a committed formula
\* reads another committed formula.
CycleAttemptOnChain ==
    /\ outcome = "rejected"
    /\ \E a \in Addresses : \E b \in DepSet(a) : InGrid(b) /\ DepSet(b) # {}

\* C2: a blur that ends in the cycle alert leaves the raw text of every cell as
\* it was before the blur.
RejectedEditLeavesGrid ==
    [][outcome' = "rejected" => state' = state]_vars

\* C2 witness: the second write of a two-cell cycle has just been rejected.
SecondWriteRejected ==
    /\ outcome = "rejected"
    /\ edits = 2
    /\ \E a \in Edited : DepSet(a) # {}

\* C3: for every edited address a and candidate text t, the cycle check returns
\* true exactly when a is reachable from a direct dependency of t by zero or
\* more committed dependency edges.
CycleCheckIsReachability ==
    \A a \in Edited : \A t \in Texts :
        (hasDependencyCycle(state, a, t) = "true")
            <=> (a \in ReachFrom(SeqSet(dependencies(parseCellContents(t)))))

\* C4: in a committed sum or product, a ref argument whose cell is empty or
\* whose value is text that is not a number contributes the identity element of
\* the fold (0 for sum, 1 for product).
NeutralRefContributesIdentity ==
    \A a \in Addresses :
        LET parsed == ParsedAt(a)
        IN  parsed.type \in {"sum", "product"} =>
            LET m == IF parsed.type = "sum" THEN sum ELSE product
            IN  \A i \in 1..Len(parsed.args) :
                    LET arg == parsed.args[i]
                    IN  (arg.type = "ref" /\ InGrid(arg.address)) =>
                        LET depth == StackDepth(state)
                            v     == ValueAt(arg.address, depth)
                        IN  (\/ RawAt(arg.address) = <<>>
                             \/ v.kind = "string" /\ ~IsDigits(trim(v.text)))
                            => readNumber(state, lookupCell(state, arg.address),
                                          m.empty, depth) = Num(m.empty)

\* A call of sum or product with nothing between the parentheses.
IsZeroArgCall(raw) ==
    LET val == trim(raw)
        p   == indexOf(val, "(")
    IN  /\ val # <<>>
        /\ val[1] = "="
        /\ p # -1
        /\ Len(val) = p + 2
        /\ val[Len(val)] = ")"
        /\ lowerText(slice(val, 1, p))
               \in { << "s", "u", "m" >>, << "p", "r", "o", "d", "u", "c", "t" >> }

\* C5: raw text of the form "=SUM()" or "=PRODUCT()" parses as the invalid
\* term, never as a sum or product term.
ZeroArgCallIsInvalid ==
    \A a \in Addresses :
        IsZeroArgCall(RawAt(a)) => ParsedAt(a).type = "invalid"

\* C6: the value of a cell whose formula is a single reference to an occupied
\* slot equals the referenced cell's value (empty text only when that value is
\* empty text; the number 0 and the text "0" are shown as computed).
RefShowsReferencedValue ==
    LET depth == StackDepth(state)
    IN  \A a \in Addresses :
            (ParsedAt(a).type = "ref" /\ InGrid(ParsedAt(a).address))
                => ValueAt(a, depth) = ValueAt(ParsedAt(a).address, depth)

\* C7 as stated: a cell whose raw text does not start with "=" has that text,
\* unchanged, as its value.
LiteralRoundTrip ==
    LET depth == StackDepth(state)
    IN  \A a \in Addresses :
            (RawAt(a) = <<>> \/ RawAt(a)[1] # "=") => ValueAt(a, depth) = Str(RawAt(a))

\* C7 amended: a cell whose raw text, with surrounding blanks removed, does not
\* start with "=" has its raw text, unchanged and untrimmed, as its value.
TrimmedLiteralRoundTrip ==
    LET depth == StackDepth(state)
    IN  \A a \in Addresses :
            (trim(RawAt(a)) = <<>> \/ trim(RawAt(a))[1] # "=")
                => ValueAt(a, depth) = Str(RawAt(a))

\* C7 witness: a literal with a leading blank has just been committed.
BlankLedLiteralCommitted ==
    /\ outcome = "committed"
    /\ \E a \in Edited : RawAt(a) = WordText

\* C8: every blur ends either committed or rejected for a cycle, and no value
\* read fails; no exception escapes the cycle check, the commit or a read.
OnlyCycleRejectionFails ==
    /\ outcome \in {"none", "committed", "rejected"}
    /\ LET depth == StackDepth(state)
       IN  \A a \in Addresses : ~IsError(ValueAt(a, depth))

\* C9: reading the value of any cell ends: the recursion through ref terms and
\* ref arguments never exceeds the depth an acyclic grid allows.
ValueReadTerminates ==
    LET depth == StackDepth(state)
    IN  \A a \in Addresses : ValueAt(a, depth).kind # "RangeError"

\* C9 witness: a committed formula reads a cell whose formula reads a third
\* cell, and its value is computed.
DeepChainEvaluated ==
    \E a \in Addresses : \E b \in DepSet(a) :
        /\ InGrid(b)
        /\ DepSet(b) # {}
        /\ readValue(state, a).kind \in {"string", "number"}

\* C10: every address referenced by a committed formula lies inside the grid;
\* a candidate that references a row at or beyond the row count is never
\* committed.
CommittedRefsInsideGrid ==
    \A a \in Addresses : \A d \in DepSet(a) : InGrid(d)

\* C10 witness: a candidate referencing the first row below the matrix was
\* proposed and the matrix still holds no such reference.
BeyondRowProposalNotCommitted ==
    /\ outcome = "threw"
    /\ \A a \in Edited : RawAt(a) # SumBeyondA0

====
